---- MODULE Spec2Model ----
(***************************************************************************)
(* Model of the image-ingestion core of the vision assistant               *)
(* (src/main.py): the byte-stream handler registered by on_enter, the      *)
(* tracking list self._tasks, and the coroutine _image_received that       *)
(* drains one reader, builds a copy of the chat context with one image     *)
(* message and publishes it through the awaited update_chat_ctx.           *)
(*                                                                         *)
(* Scheduling is asyncio's: one thread, a coroutine runs until it awaits.  *)
(* Every action below is the code between two suspension points.           *)
(***************************************************************************)
EXTENDS Integers, Sequences, FiniteSets, TLC

\* ---------------------------------------------------------------- bounds
MaxUnits == 2       \* streams that arrive during one run
MaxChunks == 2      \* chunks one reader yields before it must end or raise
MaxChunkLen == 1    \* bytes in one chunk
MaxBytes == 4       \* bytes in the one chunk of the encoding runs (EncSpec)

Units == 1..MaxUnits

\* Byte values the readers deliver (0x89 and 'P', the first bytes of a PNG).
Bytes == {137, 80}

\* The chunks a reader can yield: every byte string of at most MaxChunkLen bytes.
Chunks == UNION {[1..n -> Bytes] : n \in 0..MaxChunkLen}

\* participant_identity values and the reader.info.name values of the streams.
Identities == {"A", "B"}
StreamNames == {"img"}

\* Exceptions the awaited calls can raise into the try block.
TransferError == "TransferError"    \* raised by the reader's __anext__
UpdateError == "UpdateError"        \* raised by update_chat_ctx
PrintError == "PrintError"          \* raised by line 156 (copy/to_dict/print)

VARIABLES
    entered,        \* on_enter has run: the handler is registered for "test"
    sessionEnded,   \* the owning session has ended
    _tasks,         \* self._tasks, the list of tracked tasks
    chat_ctx,       \* self.chat_ctx, the agent's current context (a list of messages)
    pc,             \* per unit: where its task stands
    identity,       \* per unit: the participant_identity argument
    reader,         \* per unit: the reader argument (name, chunks yielded, state)
    image_bytes,    \* per unit: the local image_bytes
    local_ctx,      \* per unit: the local chat_ctx (the copy being published)
    caught,         \* per unit: the exception the except clause caught, or "none"
    updateCalls,    \* per unit: how many times it called update_chat_ctx
    log             \* the records given to logger

vars == <<entered, sessionEnded, _tasks, chat_ctx, pc, identity, reader,
          image_bytes, local_ctx, caught, updateCalls, log>>

\* ------------------------------------------------------- pure functions

\* The base64 alphabet (RFC 4648), index 1 holds the digit of value 0.
B64Alphabet ==
    <<"A","B","C","D","E","F","G","H","I","J","K","L","M","N","O","P",
      "Q","R","S","T","U","V","W","X","Y","Z","a","b","c","d","e","f",
      "g","h","i","j","k","l","m","n","o","p","q","r","s","t","u","v",
      "w","x","y","z","0","1","2","3","4","5","6","7","8","9","+","/">>

B64Digit(v) == B64Alphabet[v + 1]

RECURSIVE b64encodeNoPad(_)
b64encodeNoPad(bs) ==
    IF Len(bs) = 0 THEN ""
    ELSE IF Len(bs) = 1 THEN
        LET n == bs[1] * 65536
        IN  B64Digit(n \div 262144) \o B64Digit((n \div 4096) % 64)
    ELSE IF Len(bs) = 2 THEN
        LET n == bs[1] * 65536 + bs[2] * 256
        IN  B64Digit(n \div 262144) \o B64Digit((n \div 4096) % 64)
            \o B64Digit((n \div 64) % 64)
    ELSE
        LET n == bs[1] * 65536 + bs[2] * 256 + bs[3]
        IN  B64Digit(n \div 262144) \o B64Digit((n \div 4096) % 64)
            \o B64Digit((n \div 64) % 64) \o B64Digit(n % 64)
            \o b64encodeNoPad(SubSeq(bs, 4, Len(bs)))

\* base64.b64encode(bs).decode('utf-8'): three bytes make four digits, a last
\* group of one or two bytes is zero-filled and padded with '='.
RECURSIVE b64encode(_)
b64encode(bs) ==
    IF Len(bs) = 0 THEN ""
    ELSE IF Len(bs) = 1 THEN
        LET n == bs[1] * 65536
        IN  B64Digit(n \div 262144) \o B64Digit((n \div 4096) % 64) \o "=="
    ELSE IF Len(bs) = 2 THEN
        LET n == bs[1] * 65536 + bs[2] * 256
        IN  B64Digit(n \div 262144) \o B64Digit((n \div 4096) % 64)
            \o B64Digit((n \div 64) % 64) \o "="
    ELSE
        LET n == bs[1] * 65536 + bs[2] * 256 + bs[3]
        IN  B64Digit(n \div 262144) \o B64Digit((n \div 4096) % 64)
            \o B64Digit((n \div 64) % 64) \o B64Digit(n % 64)
            \o b64encode(SubSeq(bs, 4, Len(bs)))

\* The f-string of line 151.
ImageUrl(bs) == "data:image/png;base64," \o b64encode(bs)

\* image_bytes += chunk
ConcatRev(buf, chunk) == chunk \o buf
Concat(buf, chunk) == buf \o chunk

\* The effect of line 144 on the units' buffers: only unit u's local grows.
AddChunkShared(bufs, u, chunk) == [v \in Units |-> Concat(bufs[v], chunk)]
AddChunk(bufs, u, chunk) == [bufs EXCEPT ![u] = Concat(@, chunk)]

\* self.chat_ctx.copy(): a new list with the same messages.
CopyCtx(ctx) == [i \in 1..Len(ctx) |-> ctx[i]]

\* chat_ctx.add_message(role="user", content=[ImageContent(image=...)]).
\* id stands for the fresh message id add_message generates; the model uses
\* the unit that built the message.
add_message(ctx, u, bs) ==
    Append(ctx, [id |-> u,
                 role |-> "user",
                 content |-> <<[type |-> "image_content", image |-> ImageUrl(bs)]>>])

\* list.remove(t): drops the first occurrence of t.
RECURSIVE ListRemove(_, _)
ListRemoveNothing(list, t) == list
ListRemove(list, t) ==
    IF list = <<>> THEN <<>>
    ELSE IF Head(list) = t THEN Tail(list)
    ELSE <<Head(list)>> \o ListRemove(Tail(list), t)

\* The two logger calls of _image_received.
InfoRecord(id, name) ==
    [level |-> "info", msg |-> "Received image from %s: '%s'", args |-> <<id, name>>]
ErrorRecord(e) ==
    [level |-> "error", msg |-> "Error processing image: %s", args |-> <<e>>]

Range(s) == {s[i] : i \in DOMAIN s}

\* All chunks a reader yielded, joined in the order it yielded them.
RECURSIVE Flatten(_)
Flatten(chunks) ==
    IF chunks = <<>> THEN <<>> ELSE Head(chunks) \o Flatten(Tail(chunks))

\* ------------------------------------------------------------------ Init

NoReader == [name |-> "none", yielded |-> <<>>, state |-> "none"]

Init ==
    /\ entered = FALSE
    /\ sessionEnded = FALSE
    /\ _tasks = <<>>
    /\ chat_ctx = <<>>
    /\ pc = [u \in Units |-> "idle"]
    /\ identity = [u \in Units |-> "none"]
    /\ reader = [u \in Units |-> NoReader]
    /\ image_bytes = [u \in Units |-> <<>>]
    /\ local_ctx = [u \in Units |-> <<>>]
    /\ caught = [u \in Units |-> "none"]
    /\ updateCalls = [u \in Units |-> 0]
    /\ log = {}

\* --------------------------------------------------------------- actions

\* on_enter: registers the handler for "test" (generate_reply is the session's).
on_enter ==
    /\ ~entered
    /\ entered' = TRUE
    /\ UNCHANGED <<sessionEnded, _tasks, chat_ctx, pc, identity, reader,
                   image_bytes, local_ctx, caught, updateCalls, log>>

\* The session that owns the agent ends. main.py has no code for this event.
SessionEnd ==
    /\ entered
    /\ ~sessionEnded
    /\ sessionEnded' = TRUE
    /\ UNCHANGED <<entered, _tasks, chat_ctx, pc, identity, reader,
                   image_bytes, local_ctx, caught, updateCalls, log>>

\* The task of the next stream is the least unit not yet used.
NextUnit(u) == pc[u] = "idle" /\ \A v \in Units : v < u => pc[v] # "idle"

\* _image_received_handler(reader, participant_identity): create the task,
\* append it to self._tasks, add the done-callback; nothing is awaited.
HandlerBlocking(u, id, name) ==
    /\ entered
    /\ NextUnit(u)
    /\ \A v \in Units : pc[v] \in {"idle", "finished", "retired"}
    /\ pc' = [pc EXCEPT ![u] = "created"]
    /\ _tasks' = Append(_tasks, u)
    /\ identity' = [identity EXCEPT ![u] = id]
    /\ reader' = [reader EXCEPT ![u] = [name |-> name, yielded |-> <<>>, state |-> "open"]]
    /\ UNCHANGED <<entered, sessionEnded, chat_ctx, image_bytes, local_ctx,
                   caught, updateCalls, log>>

HandlerNoAppend(u, id, name) ==
    /\ entered
    /\ NextUnit(u)
    /\ pc' = [pc EXCEPT ![u] = "created"]
    /\ identity' = [identity EXCEPT ![u] = id]
    /\ reader' = [reader EXCEPT ![u] = [name |-> name, yielded |-> <<>>, state |-> "open"]]
    /\ UNCHANGED <<entered, sessionEnded, _tasks, chat_ctx, image_bytes,
                   local_ctx, caught, updateCalls, log>>

_image_received_handler(u, id, name) ==
    /\ entered
    /\ NextUnit(u)
    /\ pc' = [pc EXCEPT ![u] = "created"]
    /\ _tasks' = Append(_tasks, u)
    /\ identity' = [identity EXCEPT ![u] = id]
    /\ reader' = [reader EXCEPT ![u] = [name |-> name, yielded |-> <<>>, state |-> "open"]]
    /\ UNCHANGED <<entered, sessionEnded, chat_ctx, image_bytes, local_ctx,
                   caught, updateCalls, log>>

UpdateRaisesRetry(u) ==
    /\ pc[u] = "merging"
    /\ updateCalls[u] <= MaxUnits
    /\ updateCalls' = [updateCalls EXCEPT ![u] = @ + 1]
    /\ log' = log \cup {ErrorRecord(UpdateError)}
    /\ UNCHANGED <<entered, sessionEnded, _tasks, chat_ctx, pc, identity,
                   reader, image_bytes, local_ctx, caught>>

\* The task starts: logger.info (line 140), image_bytes = bytes(), and the
\* first await of the reader.
Start(u) ==
    /\ pc[u] = "created"
    /\ pc' = [pc EXCEPT ![u] = "draining"]
    /\ log' = log \cup {InfoRecord(identity[u], reader[u].name)}
    /\ image_bytes' = [image_bytes EXCEPT ![u] = <<>>]
    /\ UNCHANGED <<entered, sessionEnded, _tasks, chat_ctx, identity, reader,
                   local_ctx, caught, updateCalls>>

\* async for chunk in reader: image_bytes += chunk
NextChunk(u, chunk) ==
    /\ pc[u] = "draining"
    /\ Len(reader[u].yielded) < MaxChunks
    /\ reader' = [reader EXCEPT ![u].yielded = Append(@, chunk)]
    /\ image_bytes' = AddChunk(image_bytes, u, chunk)
    /\ UNCHANGED <<entered, sessionEnded, _tasks, chat_ctx, pc, identity,
                   local_ctx, caught, updateCalls, log>>

\* The except clause of line 157: log the error; the coroutine then returns.
\* It touches nothing but the log and the unit itself.
ExceptCancelsOthers(u, e) ==
    /\ log' = log \cup {ErrorRecord(e)}
    /\ caught' = [caught EXCEPT ![u] = e]
    /\ pc' = [v \in Units |->
                IF v = u \/ pc[v] \in {"created", "draining", "merging"}
                THEN "finished" ELSE pc[v]]
    /\ UNCHANGED <<entered, sessionEnded, _tasks, identity, image_bytes,
                   local_ctx, updateCalls>>

ExceptRetries(u, e) ==
    /\ log' = log \cup {ErrorRecord(e)}
    /\ caught' = [caught EXCEPT ![u] = e]
    /\ pc' = [pc EXCEPT ![u] = "draining"]
    /\ UNCHANGED <<entered, sessionEnded, _tasks, identity, image_bytes,
                   local_ctx, updateCalls>>

Except(u, e) ==
    /\ log' = log \cup {ErrorRecord(e)}
    /\ caught' = [caught EXCEPT ![u] = e]
    /\ pc' = [pc EXCEPT ![u] = "finished"]
    /\ UNCHANGED <<entered, sessionEnded, _tasks, identity, image_bytes,
                   local_ctx, updateCalls>>

\* The reader raises instead of yielding (line 143).
ReaderRaises(u) ==
    /\ pc[u] = "draining"
    /\ reader' = [reader EXCEPT ![u].state = "raised"]
    /\ Except(u, TransferError)
    /\ UNCHANGED chat_ctx

EndOfStreamInPlace(u) ==
    /\ pc[u] = "draining"
    /\ reader' = [reader EXCEPT ![u].state = "eof"]
    /\ chat_ctx' = add_message(chat_ctx, u, image_bytes[u])
    /\ local_ctx' = [local_ctx EXCEPT ![u] = chat_ctx']
    /\ updateCalls' = [updateCalls EXCEPT ![u] = @ + 1]
    /\ pc' = [pc EXCEPT ![u] = "merging"]
    /\ UNCHANGED <<entered, sessionEnded, _tasks, identity,
                   image_bytes, caught, log>>

\* The reader is exhausted: lines 146-155 run up to the suspension inside the
\* awaited update_chat_ctx.
EndOfStream(u) ==
    /\ pc[u] = "draining"
    /\ reader' = [reader EXCEPT ![u].state = "eof"]
    /\ local_ctx' = [local_ctx EXCEPT ![u] = add_message(CopyCtx(chat_ctx), u, image_bytes[u])]
    /\ updateCalls' = [updateCalls EXCEPT ![u] = @ + 1]
    /\ pc' = [pc EXCEPT ![u] = "merging"]
    /\ UNCHANGED <<entered, sessionEnded, _tasks, chat_ctx, identity,
                   image_bytes, caught, log>>

\* update_chat_ctx returns: the agent's context is now the published copy;
\* line 156 prints it and the coroutine returns.
UpdateReturns(u) ==
    /\ pc[u] = "merging"
    /\ chat_ctx' = local_ctx[u]
    /\ pc' = [pc EXCEPT ![u] = "finished"]
    /\ UNCHANGED <<entered, sessionEnded, _tasks, identity, reader,
                   image_bytes, local_ctx, caught, updateCalls, log>>

\* update_chat_ctx returns and line 156 raises inside the try block.
PrintRaises(u) ==
    /\ pc[u] = "merging"
    /\ chat_ctx' = local_ctx[u]
    /\ Except(u, PrintError)
    /\ UNCHANGED reader

\* update_chat_ctx raises: the context is not replaced.
UpdateRaises(u) ==
    /\ pc[u] = "merging"
    /\ Except(u, UpdateError)
    /\ UNCHANGED <<chat_ctx, reader>>

\* The done-callback of line 131: self._tasks.remove(t).
DoneCallback(u) ==
    /\ pc[u] = "finished"
    /\ pc' = [pc EXCEPT ![u] = "retired"]
    /\ _tasks' = ListRemove(_tasks, u)
    /\ UNCHANGED <<entered, sessionEnded, chat_ctx, identity, reader,
                   image_bytes, local_ctx, caught, updateCalls, log>>

\* Every step of unit u's task and of its done-callback.
UnitStep(u) ==
    \/ Start(u)
    \/ \E chunk \in Chunks : NextChunk(u, chunk)
    \/ ReaderRaises(u)
    \/ EndOfStream(u)
    \/ UpdateReturns(u)
    \/ PrintRaises(u)
    \/ UpdateRaises(u)
    \/ DoneCallback(u)

Handler ==
    \E u \in Units, id \in Identities, name \in StreamNames :
        _image_received_handler(u, id, name)

Next ==
    \/ on_enter
    \/ SessionEnd
    \/ Handler
    \/ \E u \in Units : UnitStep(u)

Spec == Init /\ [][Next]_vars

\* The event loop runs every task that is ready and every scheduled callback.
FairSpec == Spec /\ \A u \in Units : WF_vars(UnitStep(u))

\* ------------------------------------------------ encoding specification
\* The message construction on longer payloads: every unit is draining and
\* its reader has yielded one chunk, unit 1's of up to MaxBytes arbitrary
\* bytes, so that whole three-byte groups and both paddings are encoded.
EncBytes == {0, 80, 137, 255}
LongChunks == UNION {[1..n -> EncBytes] : n \in 0..MaxBytes}

EncInit ==
    /\ entered = TRUE
    /\ sessionEnded = FALSE
    /\ _tasks = [u \in Units |-> u]
    /\ chat_ctx = <<>>
    /\ pc = [u \in Units |-> "draining"]
    /\ identity = [u \in Units |-> "A"]
    /\ \E long \in LongChunks, short \in Chunks :
          /\ reader = [u \in Units |->
                         [name |-> "img",
                          yielded |-> <<IF u = 1 THEN long ELSE short>>,
                          state |-> "open"]]
          /\ image_bytes = [u \in Units |->
                              Concat(<<>>, IF u = 1 THEN long ELSE short)]
    /\ local_ctx = [u \in Units |-> <<>>]
    /\ caught = [u \in Units |-> "none"]
    /\ updateCalls = [u \in Units |-> 0]
    /\ log = {InfoRecord("A", "img")}

EncNext ==
    \E u \in Units :
        \/ ReaderRaises(u)
        \/ EndOfStream(u)
        \/ UpdateReturns(u)
        \/ PrintRaises(u)
        \/ UpdateRaises(u)
        \/ DoneCallback(u)

EncSpec == EncInit /\ [][EncNext]_vars

\* ------------------------------------------------------ derived notions

Spawned == {u \in Units : pc[u] # "idle"}
Over(u) == pc[u] \in {"finished", "retired"}

\* The image messages unit u contributed to a context.
MessagesOf(ctx, u) == {i \in DOMAIN ctx : ctx[i].id = u}

\* The data URL of everything unit u's reader yielded.
StreamUrl(u) == ImageUrl(Flatten(reader[u].yielded))

\* ---------------------------------------------------------------- claims

\* C1: no lost updates. When every spawned unit is over, every reader ended
\* without error and no unit took the except path, the context holds exactly
\* one image message per spawned unit, and nothing else.
C1_NoLostUpdates ==
    (/\ Spawned # {}
     /\ \A u \in Spawned : Over(u) /\ reader[u].state = "eof" /\ caught[u] = "none")
    => /\ Len(chat_ctx) = Cardinality(Spawned)
       /\ \A u \in Spawned : Cardinality(MessagesOf(chat_ctx, u)) = 1

\* C2: a unit that ended on its except path has made no change to the shared
\* context: the context holds no message built by that unit.
C2_FailedUnitLeavesNoMessage ==
    \A u \in Units : caught[u] # "none" => MessagesOf(chat_ctx, u) = {}

\* C3: the payload a unit embeds is the concatenation of the chunks its reader
\* yielded, in the order yielded, and the unit builds its message only after
\* its reader signalled end-of-stream.
C3_PayloadIsConcatenation ==
    \A u \in Units :
        /\ local_ctx[u] # <<>> =>
              /\ reader[u].state = "eof"
              /\ local_ctx[u][Len(local_ctx[u])].content[1].image = StreamUrl(u)
        /\ pc[u] \in {"merging"} => local_ctx[u] # <<>>

C3_Witness ==
    \E u \in Units :
        /\ pc[u] = "merging"
        /\ reader[u].yielded = <<<<137>>, <<80>>>>
        /\ local_ctx[u][Len(local_ctx[u])].content[1].image = "data:image/png;base64,iVA="

\* C4: buffers are never shared. Whatever the interleaving of the chunk
\* deliveries, every unit's image_bytes holds the chunks of its own reader and
\* nothing else, and every message in the shared context carries the bytes of
\* the one stream of the unit that built it.
C4_BuffersNotShared ==
    /\ \A u \in Units : image_bytes[u] = Flatten(reader[u].yielded)
    /\ \A i \in DOMAIN chat_ctx :
          chat_ctx[i].content[1].image = StreamUrl(chat_ctx[i].id)

C4_Witness ==
    \E u, v \in Units :
        /\ u # v
        /\ MessagesOf(chat_ctx, u) # {}
        /\ image_bytes[u] = <<137>>
        /\ pc[v] = "draining"
        /\ image_bytes[v] = <<80, 80>>

\* C5: every spawned unit is eventually removed from self._tasks once it has
\* finished, on the success path and on the except path alike, and once all
\* spawned units have been retired self._tasks is empty.
C5_EventuallyUntracked ==
    /\ \A u \in Units :
          (pc[u] # "idle") ~> (pc[u] = "retired" /\ u \notin Range(_tasks))
    /\ []((Spawned # {} /\ \A u \in Spawned : pc[u] = "retired") => _tasks = <<>>)

C5_Witness ==
    \E u, v \in Units :
        /\ pc[u] = "retired" /\ caught[u] = "none" /\ MessagesOf(chat_ctx, u) # {}
        /\ pc[v] = "retired" /\ caught[v] = TransferError
        /\ _tasks = <<>>

\* C6: failure containment. The step on which a unit takes its except path
\* for an error raised while draining or merging changes nothing of any other
\* unit, of the shared context, of the tracking list or of the registration;
\* such a unit has left no message in the shared context; and while the
\* handler is registered and a stream can still arrive, the handler accepts it
\* whatever has failed before.
FailsInTransfer(u) ==
    caught[u] = "none" /\ caught'[u] \in {TransferError, UpdateError}

C6_FailureContained ==
    /\ [][\A u \in Units : FailsInTransfer(u) =>
            /\ chat_ctx' = chat_ctx
            /\ _tasks' = _tasks
            /\ entered' = entered
            /\ \A v \in Units \ {u} :
                  /\ pc'[v] = pc[v]
                  /\ reader'[v] = reader[v]
                  /\ image_bytes'[v] = image_bytes[v]
                  /\ local_ctx'[v] = local_ctx[v]
                  /\ caught'[v] = caught[v]
                  /\ updateCalls'[v] = updateCalls[v]]_vars
    /\ [](\A u \in Units :
            caught[u] \in {TransferError, UpdateError} =>
                /\ MessagesOf(chat_ctx, u) = {}
                /\ (\E v \in Units : pc[v] = "idle") => ENABLED Handler)

C6_Witness ==
    \E u, v \in Units :
        /\ caught[u] = TransferError /\ reader[u].yielded # <<>>
        /\ v > u
        /\ pc[v] = "retired" /\ caught[v] = "none"
        /\ MessagesOf(chat_ctx, v) # {}

\* C7: the handler never blocks on a transfer. A task the handler has just
\* created is tracked and has read no chunk, and as long as the handler is
\* registered it accepts the next stream whatever the earlier units are doing
\* (Draining, Merging or over).
C7_HandlerNeverBlocks ==
    /\ \A u \in Units :
          pc[u] = "created" =>
              /\ reader[u].yielded = <<>>
              /\ image_bytes[u] = <<>>
              /\ u \in Range(_tasks)
    /\ (entered /\ \E u \in Units : pc[u] = "idle") => ENABLED Handler

C7_Witness ==
    \E u, v \in Units :
        /\ pc[u] = "draining" /\ reader[u].yielded # <<>>
        /\ pc[v] = "created"

\* C8: once the session has ended no unit calls update_chat_ctx any more.
C8_NoPublishAfterSessionEnd ==
    [][sessionEnded => updateCalls' = updateCalls]_vars

\* C10: every error caught by the except clause has an error log entry that
\* carries the participant identity, the stream name and the error.
C10_ErrorLogNamesStream ==
    \A u \in Units :
        caught[u] # "none" =>
            \E r \in log :
                /\ r.level = "error"
                /\ caught[u] \in Range(r.args)
                /\ identity[u] \in Range(r.args)
                /\ reader[u].name \in Range(r.args)

\* C11: each unit moves only along created -> draining -> merging -> over
\* (finished, then retired by the done-callback). It calls update_chat_ctx
\* only once its reader is exhausted, never goes back to draining, goes from
\* an exception in draining or merging straight to finished, and neither
\* reads its stream again nor publishes a second time.
Edge(from, to) ==
    \/ from = to
    \/ from = "idle" /\ to = "created"
    \/ from = "created" /\ to = "draining"
    \/ from = "draining" /\ to \in {"merging", "finished"}
    \/ from = "merging" /\ to = "finished"
    \/ from = "finished" /\ to = "retired"

C11_UnitLifecycle ==
    /\ [][\A u \in Units :
            /\ Edge(pc[u], pc'[u])
            /\ (caught[u] = "none" /\ caught'[u] # "none") => pc'[u] = "finished"
            /\ pc[u] # "draining" => reader'[u].yielded = reader[u].yielded
            /\ reader[u].state \in {"eof", "raised"} => reader'[u] = reader[u]
            /\ updateCalls[u] >= 1 => updateCalls'[u] = updateCalls[u]]_vars
    /\ [](\A u \in Units :
            /\ updateCalls[u] >= 1 => reader[u].state = "eof"
            /\ pc[u] = "merging" => reader[u].state = "eof"
            /\ pc[u] \in {"created", "draining"} => reader[u].state = "open")

C11_Witness ==
    \E u, v \in Units :
        /\ pc[u] = "retired" /\ caught[u] = UpdateError /\ Len(reader[u].yielded) = MaxChunks
        /\ pc[v] = "retired" /\ caught[v] = "none" /\ updateCalls[v] = 1

\* p is a prefix of q.
IsPrefix(p, q) == Len(p) <= Len(q) /\ \A i \in DOMAIN p : q[i] = p[i]

\* C12: the current context is append-only: every step that replaces the
\* current context keeps the previously current context as a prefix.
C12_AppendOnly ==
    [][IsPrefix(chat_ctx, chat_ctx')]_vars

\* A message is complete: role, one image item, the whole stream of its unit.
Complete(m) ==
    /\ m.role = "user"
    /\ Len(m.content) = 1
    /\ m.content[1].image = StreamUrl(m.id)

\* C13: copy-then-swap. The shared context changes only on the step on which a
\* unit's update_chat_ctx returns, and then to that unit's private copy; the
\* private copy is made on the step that ends the drain, is the current
\* context of that moment plus one complete message, and is not changed while
\* the publish is awaited; the current context never holds an incomplete
\* message.
C13_CopyThenSwap ==
    /\ [][/\ chat_ctx' # chat_ctx =>
                \E u \in Units :
                    /\ pc[u] = "merging" /\ pc'[u] = "finished"
                    /\ chat_ctx' = local_ctx[u]
          /\ \A u \in Units :
                /\ (pc[u] = "draining" /\ pc'[u] = "merging") =>
                      /\ chat_ctx' = chat_ctx
                      /\ Len(local_ctx'[u]) = Len(chat_ctx) + 1
                      /\ IsPrefix(chat_ctx, local_ctx'[u])
                      /\ local_ctx'[u][Len(local_ctx'[u])].id = u
                      /\ Complete(local_ctx'[u][Len(local_ctx'[u])])
                /\ ~(pc[u] = "draining" /\ pc'[u] = "merging") =>
                      local_ctx'[u] = local_ctx[u]]_vars
    /\ [](\A i \in DOMAIN chat_ctx : Complete(chat_ctx[i]))

C13_Witness ==
    \E u, v \in Units :
        /\ u # v
        /\ pc[u] = "merging"
        /\ Len(local_ctx[u]) = 2
        /\ local_ctx[u][1].id = v
        /\ chat_ctx = <<local_ctx[u][1]>>
        /\ image_bytes[u] # <<>>

\* C14: update_chat_ctx is called exactly once by every unit whose reader
\* reached end-of-stream and never by a unit whose reader raised (or is still
\* open): the number of calls is the number of assembled images.
Assembled == {u \in Units : reader[u].state = "eof"}

RECURSIVE SumCalls(_)
SumCalls(S) ==
    IF S = {} THEN 0
    ELSE LET u == CHOOSE x \in S : TRUE IN updateCalls[u] + SumCalls(S \ {u})

C14_OneUpdatePerImage ==
    /\ \A u \in Units : updateCalls[u] = (IF u \in Assembled THEN 1 ELSE 0)
    /\ SumCalls(Units) = Cardinality(Assembled)

C14_Witness ==
    \E u, v \in Units :
        /\ Over(u) /\ reader[u].state = "eof" /\ updateCalls[u] = 1
        /\ caught[u] = UpdateError
        /\ Over(v) /\ reader[v].state = "raised" /\ reader[v].yielded # <<>>
        /\ updateCalls[v] = 0

\* Base64 from its definition, bit by bit: the bytes as one bit string, most
\* significant bit first, zero-filled to a multiple of six, every six bits one
\* digit, then '=' up to a multiple of four digits.
BitsOfByte(b) == [i \in 1..8 |-> (b \div (2 ^ (8 - i))) % 2]

RECURSIVE BitsOf(_)
BitsOf(bs) == IF bs = <<>> THEN <<>> ELSE BitsOfByte(Head(bs)) \o BitsOf(Tail(bs))

ZeroFill(bits) == bits \o [i \in 1..((6 - (Len(bits) % 6)) % 6) |-> 0]

RefDigit(v) ==
    IF v < 26 THEN
        <<"A","B","C","D","E","F","G","H","I","J","K","L","M",
          "N","O","P","Q","R","S","T","U","V","W","X","Y","Z">>[v + 1]
    ELSE IF v < 52 THEN
        <<"a","b","c","d","e","f","g","h","i","j","k","l","m",
          "n","o","p","q","r","s","t","u","v","w","x","y","z">>[v - 25]
    ELSE IF v < 62 THEN <<"0","1","2","3","4","5","6","7","8","9">>[v - 51]
    ELSE IF v = 62 THEN "+" ELSE "/"

RECURSIVE RefDigits(_)
RefDigits(bits) ==
    IF bits = <<>> THEN ""
    ELSE RefDigit(32 * bits[1] + 16 * bits[2] + 8 * bits[3]
                  + 4 * bits[4] + 2 * bits[5] + bits[6])
         \o RefDigits(SubSeq(bits, 7, Len(bits)))

RefBase64(bs) ==
    RefDigits(ZeroFill(BitsOf(bs)))
    \o (CASE Len(bs) % 3 = 0 -> "" [] Len(bs) % 3 = 1 -> "==" [] OTHER -> "=")

\* What the claim says a unit's message is, for the bytes it assembled.
ClaimedMessage(m, bs) ==
    /\ m.role = "user"
    /\ Len(m.content) = 1
    /\ m.content[1].type = "image_content"
    /\ m.content[1].image = "data:image/png;base64," \o RefBase64(bs)

\* C15: every message a unit appends has role "user" and exactly one content
\* item, an image whose string is data:image/png;base64, followed by the
\* base64 encoding of exactly the bytes that unit assembled.
C15_MessageShape ==
    /\ \A u \in Units :
          local_ctx[u] # <<>> =>
              /\ local_ctx[u][Len(local_ctx[u])].id = u
              /\ ClaimedMessage(local_ctx[u][Len(local_ctx[u])], image_bytes[u])
    /\ \A i \in DOMAIN chat_ctx :
          ClaimedMessage(chat_ctx[i], image_bytes[chat_ctx[i].id])

C15_Witness ==
    /\ Len(chat_ctx) = 1
    /\ image_bytes[chat_ctx[1].id] = <<137, 80, 0, 255>>
    /\ chat_ctx[1].content[1].image = "data:image/png;base64,iVAA/w=="
    /\ \E u \in Units :
          /\ pc[u] = "merging"
          /\ image_bytes[u] = <<80>>
          /\ local_ctx[u][Len(local_ctx[u])].content[1].image = "data:image/png;base64,UA=="

\* C16: self._tasks is consistent under every interleaving: a task is in the
\* list from the handler's append until its done-callback, the callback's
\* remove always finds its task, no task is in the list twice, and the list
\* holds exactly the spawned tasks whose done-callback has not run.
Tracked == {u \in Units : pc[u] \in {"created", "draining", "merging", "finished"}}

C16_TasksConsistent ==
    /\ [](/\ Range(_tasks) = Tracked
          /\ Len(_tasks) = Cardinality(Tracked))
    /\ [][\A u \in Units :
            /\ (pc[u] = "finished" /\ pc'[u] = "retired") =>
                  /\ u \in Range(_tasks)
                  /\ u \notin Range(_tasks')
                  /\ Len(_tasks') = Len(_tasks) - 1
            /\ (pc[u] = "idle" /\ pc'[u] # "idle") =>
                  /\ u \notin Range(_tasks)
                  /\ _tasks' = Append(_tasks, u)]_vars

C16_Witness ==
    /\ _tasks = <<2>>
    /\ pc[1] = "retired"
    /\ pc[2] = "draining"

====
